---- MODULE Spec2Model ----
(***************************************************************************)
(* Model of parsyfiles' combining parsers                                  *)
(* (src/parsyfiles/parsing_combining_parsers.py): a CascadingParser with   *)
(* its shared candidate list, and the one CascadingParsingPlan built from  *)
(* it, with its cursor, its active plan and its error dictionaries.        *)
(*                                                                         *)
(* Python indices are kept as they are (0-based, -1 = "before first"); the *)
(* candidate at Python index i is parsers_list[i+1].  A Python dict is a   *)
(* sequence of entries in insertion order with at most one entry per key.  *)
(* Every call is given a logger (both call sites of                        *)
(* activate_next_working_parser pass the one they received).               *)
(*                                                                         *)
(* ChainSpec is the second specification: the construction of a            *)
(* ParsingChain from a base parser and a converter, and its two parse      *)
(* primitives.                                                             *)
(***************************************************************************)
EXTENDS Integers, Sequences, FiniteSets, TLC

\* ------------------------------------------------------------------ bounds
MaxParsers == 3      \* longest candidate list explored
MaxExecutes == 2     \* execute() calls explored on the plan

\* --------------------------------------------------------------- constants
None == "None"       \* Python's None for active_parsing_plan

\* The parser objects that exist; a cascade may hold one of them twice.
ParserIds == {"A", "B", "C"}

\* What a candidate's create_parsing_plan / plan.execute can do: succeed, or
\* raise.  Both failures are instances of Python's Exception: "ParseError"
\* is an ordinary failure on the input, "InternalError" is the bare
\* Exception('This should never happen, ...') of DelegatingParser.
ExceptionKinds == {"ParseError", "InternalError"}

\* "C" is the candidate that rests on a DelegatingParser's primitives, so it
\* is the one that can fail with the internal error; "A" and "B" fail on
\* their input only.
Raises(p) == IF p = "C" THEN ExceptionKinds ELSE {"ParseError"}

Outcomes(p) == {"ok"} \cup Raises(p)

\* ------------------------------------------------------------ capabilities
MULTIFILE_EXT == "<multifile>"

supported_types_of(p) ==
    IF p = "A" THEN {"T1"}
    ELSE IF p = "B" THEN {"T1", "T2"}
    ELSE {"Any"}

\* "B" is a multi-file parser only: it lacks single-file support.
supported_exts_of(p) ==
    IF p = "A" THEN {".txt"}
    ELSE IF p = "B" THEN {MULTIFILE_EXT}
    ELSE {".txt", MULTIFILE_EXT}

supports_singlefile(exts) == (exts \ {MULTIFILE_EXT}) # {}

supports_multifile(exts) == MULTIFILE_EXT \in exts

VARIABLES
    parsers_list,                  \* CascadingParser._parsers_list, shared with the plan
    configured,                    \* CascadingParser.configured
    supported_types,               \* CascadingParser.supported_types ({} = not set yet)
    supported_exts,                \* CascadingParser.supported_exts
    last_add,                      \* the last add_parser_to_cascade call and how it ended
    plan_exists,                   \* a CascadingParsingPlan was returned to the caller
    active_parser_idx,             \* plan.active_parser_idx
    active_parsing_plan,           \* None, or the parser whose plan is wrapped
    parsing_plan_creation_errors,  \* plan.parsing_plan_creation_errors
    result,                        \* what the last call on the plan returned or raised
    log,                           \* candidate attempts of the last call, in order
    buildLog,                      \* candidate attempts of the call that built the plan
    created,                       \* indices whose plan construction was attempted
    execFailed,                    \* indices whose plan execution failed
    failed,                        \* indices that failed, at either phase
    cascadeRaised,                 \* an execute() of this plan has raised CascadeError
    nExecutes,                     \* execute() calls made on the plan
    chain_call,                    \* the last ParsingChain(...) call and how it ended
    chain,                         \* the ParsingChain that call returned, if it did
    parse,                         \* the last parse primitive called on the chain
    primitive_call,                \* the last direct call of one of the cascade's own primitives
    mf_children,                   \* obj_on_fs.get_multifile_children(), in its iteration order
    mf_desired_type,               \* the collection type asked of the MultifileCollectionParser
    children_plan,                 \* the dict _get_parsing_plan_for_multifile_children returned
    plan_call,                     \* how that call ended, and the children it planned, in order
    mf_parse,                      \* the last _parse_multifile call of the collection parser
    collection,                    \* the collection that call returned, with its inner dict
    read,                          \* the last item read from the collection
    mf_contents,                   \* what each child's file parses to, up to Python's ==
    set_read                       \* the last len() or iteration of a returned set

vars == <<parsers_list, configured, supported_types, supported_exts, last_add,
          plan_exists, active_parser_idx, active_parsing_plan, parsing_plan_creation_errors,
          result, log, buildLog, created, execFailed, failed, cascadeRaised,
          nExecutes, chain_call, chain, parse, primitive_call,
          mf_children, mf_desired_type, children_plan, plan_call, mf_parse, collection,
          read, mf_contents, set_read>>

collectionVars == <<mf_children, mf_desired_type, children_plan, plan_call, mf_parse,
                    collection, read, mf_contents, set_read>>

chainVars == <<chain_call, chain, parse>>

parserVars == <<parsers_list, configured, supported_types, supported_exts, last_add>>

planVars == <<plan_exists, active_parser_idx, active_parsing_plan,
              parsing_plan_creation_errors, result, log, buildLog, created,
              execFailed, failed, cascadeRaised, nExecutes>>

\* ------------------------------------------------------------ Python dicts
Keys(d) == {d[n].parser : n \in DOMAIN d}

\* d[entry.parser] = entry
DictSet(d, entry) ==
    IF entry.parser \in Keys(d)
    THEN [n \in DOMAIN d |-> IF d[n].parser = entry.parser THEN entry ELSE d[n]]
    ELSE Append(d, entry)

RECURSIVE DictUpdate(_, _)
\* d.update(other)
DictUpdate(d, other) ==
    IF other = <<>> THEN d
    ELSE DictUpdate(DictSet(d, Head(other)), Tail(other))

NoExc == [kind |-> "none", context |-> "none", caught |-> <<>>]

\* n = the number of candidates in the list when the call ran.
NoResult == [op |-> "none", kind |-> "none", context |-> "none",
             value |-> None, caught |-> <<>>, n |-> 0]

\* ------------------------------------------------------------- exceptions
\* `except Exception as e`: every failure a candidate raises is an instance
\* of Exception, the DelegatingParser's bare Exception included.
\* Mutant: no handler at all around the candidate's call.
CaughtNothing(e) == FALSE

Caught(e) == e \in ExceptionKinds

\* CascadeError.create_for_parsing_plan_creation: one block per dict entry,
\* in the dict's iteration order.
create_for_parsing_plan_creation(caught) ==
    [kind |-> "CascadeError", context |-> "creation", caught |-> caught]

\* CascadeError.create_for_execution: the same, under the other header.
create_for_execution(caught_exec) ==
    [kind |-> "CascadeError", context |-> "execution", caught |-> caught_exec]

\* ----------------------------------------------- CascadingParsingPlan body
\* The plan while a call runs on it: its fields, the attempts made so far in
\* this call, and how the running function ended ("running", "returned",
\* "raised").
Frame(idx, plan, errs) ==
    [idx |-> idx, plan |-> plan, errs |-> errs, log |-> <<>>,
     status |-> "running", exc |-> NoExc, value |-> None]

Event(op, i, o) == [op |-> op, i |-> i, o |-> o]

\* A propagating exception that is not a CascadeError built here.
Propagate(F, e) ==
    [F EXCEPT !.status = "raised",
              !.exc = [kind |-> e, context |-> "none", caught |-> <<>>]]

\* Mutant: the loop starts one candidate too far.
FirstCandidateSkipsOne(F) == F.idx + 2

\* First index the for loop of activate_next_working_parser visits.
FirstCandidate(F) == F.idx + 1

\* Mutant: the dict is rebound to the latest failure instead of updated.
RecordCreationErrorKeepsLast(errs, p, e) ==
    <<[parser |-> p, phase |-> "creation", kind |-> e]>>

\* self.parsing_plan_creation_errors[p] = e
RecordCreationError(errs, p, e) ==
    DictSet(errs, [parser |-> p, phase |-> "creation", kind |-> e])

\* Mutant: the cursor is moved one past the activated candidate.
ActivateCursorOffByOne(F, p, i) ==
    [F EXCEPT !.plan = p, !.idx = i + 1, !.status = "returned",
              !.log = Append(F.log, Event("create", i, "ok"))]

\* A successful create_parsing_plan of candidate i: wrap the plan, move the
\* cursor, return.
Activate(F, p, i) ==
    [F EXCEPT !.plan = p, !.idx = i, !.status = "returned",
              !.log = Append(F.log, Event("create", i, "ok"))]

\* Mutant: the loop gives up after the first candidate that fails.
ForLoopSingleAttempt(F, list, i) ==
    IF i >= Len(list) THEN {F}
    ELSE LET p == list[i + 1] IN
         UNION { IF o = "ok" THEN {Activate(F, p, i)}
                 ELSE LET G == [F EXCEPT !.log = Append(F.log, Event("create", i, o))]
                      IN IF Caught(o)
                         THEN {[G EXCEPT !.errs = RecordCreationError(G.errs, p, o)]}
                         ELSE {Propagate(G, o)}
               : o \in Outcomes(p) }

RECURSIVE ForLoop(_, _, _)
\* for i in range(i, len(parser_list)): every way the loop can end, one per
\* choice of the candidates' outcomes.  "running" = the loop ran out.
ForLoop(F, list, i) ==
    IF i >= Len(list) THEN {F}
    ELSE LET p == list[i + 1] IN
         UNION { IF o = "ok" THEN {Activate(F, p, i)}
                 ELSE LET G == [F EXCEPT !.log = Append(F.log, Event("create", i, o))]
                      IN IF Caught(o)
                         THEN ForLoop([G EXCEPT !.errs = RecordCreationError(G.errs, p, o)],
                                      list, i + 1)
                         ELSE {Propagate(G, o)}
               : o \in Outcomes(p) }

\* Mutant: the active plan is dropped when the candidates are exhausted.
RaiseCascadeDropsPlan(F, already) ==
    IF ~already.given
    THEN [F EXCEPT !.status = "raised", !.plan = None,
                   !.exc = create_for_parsing_plan_creation(F.errs)]
    ELSE LET caught == DictUpdate(F.errs, already.errs) IN
         [F EXCEPT !.errs = caught, !.status = "raised", !.plan = None,
                   !.exc = create_for_execution(caught)]

\* Mutant: the cursor is rewound when the candidates are exhausted.
RaiseCascadeRewinds(F, already) ==
    IF ~already.given
    THEN [F EXCEPT !.status = "raised", !.idx = -1,
                   !.exc = create_for_parsing_plan_creation(F.errs)]
    ELSE LET caught == DictUpdate(F.errs, already.errs) IN
         [F EXCEPT !.errs = caught, !.status = "raised", !.idx = -1,
                   !.exc = create_for_execution(caught)]

\* The raise at the end of activate_next_working_parser.  `already` is
\* already_caught_execution_errors: [given |-> FALSE] for None.
RaiseCascade(F, already) ==
    IF ~already.given
    THEN [F EXCEPT !.status = "raised",
                   !.exc = create_for_parsing_plan_creation(F.errs)]
    ELSE LET caught == DictUpdate(F.errs, already.errs) IN
         [F EXCEPT !.errs = caught, !.status = "raised",
                   !.exc = create_for_execution(caught)]

activate_next_working_parser(F, list, already) ==
    LET after == IF FirstCandidate(F) < Len(list)
                 THEN ForLoop(F, list, FirstCandidate(F))
                 ELSE {F}
    IN { IF G.status = "running" THEN RaiseCascade(G, already) ELSE G : G \in after }

\* execution_errors[self.active_parsing_plan.parser] = e
RecordExecutionError(execution_errors, p, e) ==
    DictSet(execution_errors, [parser |-> p, phase |-> "execution", kind |-> e])

\* Mutant: a successful execute forgets the construction failures.
ReturnClearsErrors(G) ==
    [G EXCEPT !.status = "returned", !.value = G.plan, !.errs = <<>>]

\* return self.active_parsing_plan.execute(logger, *args, **kwargs)
Return(G) == [G EXCEPT !.status = "returned", !.value = G.plan]

RECURSIVE WhileLoop(_, _, _)
\* while self.active_parsing_plan is not None: ...
WhileLoop(F, list, execution_errors) ==
    IF F.plan = None
    THEN LET caught == DictUpdate(F.errs, execution_errors) IN
         {[F EXCEPT !.errs = caught, !.status = "raised",
                    !.exc = create_for_execution(caught)]}
    ELSE UNION {
           LET G == [F EXCEPT !.log = Append(F.log, Event("execute", F.idx, o))] IN
           IF o = "ok"
           THEN {Return(G)}
           ELSE IF Caught(o)
           THEN LET ee == RecordExecutionError(execution_errors, G.plan, o) IN
                UNION { IF H.status = "raised" THEN {H}
                        ELSE WhileLoop([H EXCEPT !.status = "running"], list, ee)
                      : H \in activate_next_working_parser(G, list,
                                    [given |-> TRUE, errs |-> ee]) }
           ELSE {Propagate(G, o)}
         : o \in Outcomes(F.plan) }

execute(F, list) ==
    IF F.plan # None
    THEN WhileLoop(F, list, <<>>)
    ELSE {[F EXCEPT !.status = "raised",
                    !.exc = [kind |-> "Exception", context |-> "empty parser list",
                             caught |-> <<>>]]}

\* Mutant: a new plan starts at the cursor of the plan before it.
PlanInitKeepsCursor(list) ==
    activate_next_working_parser(Frame(active_parser_idx, None, <<>>), list,
                                 [given |-> FALSE])

\* CascadingParsingPlan.__init__ after check_var: the fields' first values,
\* then activate_next_working_parser(logger=logger).
PlanInit(list) ==
    activate_next_working_parser(Frame(-1, None, <<>>), list, [given |-> FALSE])

\* --------------------------------------------------------------- history
CreatedIn(L) == {L[n].i : n \in {m \in DOMAIN L : L[m].op = "create"}}

ExecFailedIn(L) == {L[n].i : n \in {m \in DOMAIN L : L[m].op = "execute" /\ L[m].o # "ok"}}

FailedIn(L) == {L[n].i : n \in {m \in DOMAIN L : L[m].o # "ok"}}

\* What the caller of `op` observes when the call ends in frame G.
Observed(op, G, n) ==
    IF G.status = "returned"
    THEN [op |-> op, kind |-> "returned", context |-> "none",
          value |-> G.value, caught |-> <<>>, n |-> n]
    ELSE [op |-> op, kind |-> G.exc.kind, context |-> G.exc.context,
          value |-> None, caught |-> G.exc.caught, n |-> n]

\* ------------------------------------------------------- DelegatingParser
\* The three parse primitives CascadingParser inherits from DelegatingParser,
\* and the _execute of its CascadingParsingPlan.
ParserPrimitives ==
    {"_parse_singlefile", "_get_parsing_plan_for_multifile_children", "_parse_multifile"}

OwnPrimitives == ParserPrimitives \cup {"_execute"}

NoPrimitiveCall == [primitive |-> None, outcome |-> None]

\* Mutant: the single-file primitive parses files of the first type itself.
DelegatingPrimitiveParses(primitive, desired_type) ==
    IF primitive = "_parse_singlefile" /\ desired_type = "T1" THEN "returned"
    ELSE "Exception: This should never happen"

\* The body of each primitive is one raise statement, whatever its arguments.
DelegatingPrimitive(primitive, desired_type) ==
    IF primitive \in ParserPrimitives THEN "Exception: This should never happen"
    ELSE "NotImplementedError"

\* ----------------------------------------------------------- ParsingChain
\* The types of the explored inputs; "T2" is a subclass of "T1".
Types == {"T1", "T2", "T3"}

issubclass(a, b) == a = b \/ (a = "T2" /\ b = "T1")

\* The base parsers a chain is built from, by what they declare.
BaseParsers ==
    [supported_types : (SUBSET {"Any", "T1", "T2"}) \ {{}},
     supported_exts : {{".txt"}, {".txt", MULTIFILE_EXT}}]

\* The converters a chain is built from, by their declared source and
\* destination types.
Converters == {c \in [from_type : {"T1", "T2"}, to_type : {"T2", "T3"}] :
                  c.from_type # c.to_type}

\* What a stage of a chain's parse can do: return, or raise.
BaseOutcomes == {"ok", "ParseError"}

ConverterOutcomes == {"ok", "ConversionError"}

NoParser == [supported_types |-> {}, supported_exts |-> {}]

NoConverter == [from_type |-> None, to_type |-> None]

NoCall == [base_parser |-> NoParser, converter |-> NoConverter, strict |-> FALSE,
           base_parser_chosen_dest_type |-> None, error |-> None]

NoChain == [built |-> FALSE, base_parser |-> NoParser, converter |-> NoConverter,
            strict |-> FALSE, supported_types |-> {}, supported_exts |-> {}]

NoValue == [by |-> None, type |-> None, of |-> None]

NoParse == [op |-> "none", desired_type |-> None, base |-> None, conv |-> None,
            calls |-> <<>>, kind |-> None, value |-> NoValue]

\* converter.is_able_to_convert(strict=strict, from_type=t, to_type=None)
is_able_to_convert(conv, strict, t) ==
    \/ t = conv.from_type
    \/ ~strict /\ issubclass(t, conv.from_type)

\* Mutant: a base parser able to parse any type is let through.
IsWildcardParserNever(base_parser) == FALSE

\* if Any in base_parser.supported_types
IsWildcardParser(base_parser) == "Any" \in base_parser.supported_types

\* Mutant: a missing base_parser_chosen_dest_type is never an error.
IsAmbiguousNever(base_parser, chosen) == FALSE

\* base_parser_chosen_dest_type is None and len(supported_types) != 1
IsAmbiguous(base_parser, chosen) ==
    chosen = None /\ Cardinality(base_parser.supported_types) # 1

\* parser_out_type, once the ambiguity check has passed
parser_out_type(base_parser, chosen) ==
    IF chosen = None
    THEN CHOOSE t \in base_parser.supported_types : TRUE
    ELSE chosen

\* Mutant: the chain also advertises the converter's source type.
ChainSupportedTypesWithSource(base_parser, converter) ==
    {converter.from_type, converter.to_type}

\* supported_types={converter.to_type}
ChainSupportedTypes(base_parser, converter) == {converter.to_type}

\* supported_exts=base_parser.supported_exts
ChainSupportedExts(base_parser, converter) == base_parser.supported_exts

\* ParsingChain.__init__: the ValueError it raises, or None.
ChainError(base_parser, converter, strict, chosen) ==
    IF IsWildcardParser(base_parser) THEN "ValueError: any type"
    ELSE IF IsAmbiguous(base_parser, chosen) THEN "ValueError: several types"
    ELSE IF ~is_able_to_convert(converter, strict, parser_out_type(base_parser, chosen))
         THEN "ValueError: types are not consistent"
    ELSE None

\* ParsingChain.__init__: the object the caller gets; none when it raised.
ParsingChain(base_parser, converter, strict, chosen) ==
    IF ChainError(base_parser, converter, strict, chosen) # None THEN NoChain
    ELSE [built |-> TRUE, base_parser |-> base_parser, converter |-> converter,
          strict |-> strict,
          supported_types |-> ChainSupportedTypes(base_parser, converter),
          supported_exts |-> ChainSupportedExts(base_parser, converter)]

\* A call ParsingChain(base_parser, converter, strict, chosen).
NewParsingChain ==
    /\ \E base_parser \in BaseParsers, converter \in Converters, strict \in BOOLEAN,
          chosen \in {None} \cup Types :
         /\ chain_call' = [base_parser |-> base_parser, converter |-> converter,
                           strict |-> strict, base_parser_chosen_dest_type |-> chosen,
                           error |-> ChainError(base_parser, converter, strict, chosen)]
         /\ chain' = ParsingChain(base_parser, converter, strict, chosen)
    /\ parse' = NoParse
    /\ UNCHANGED <<parserVars, planVars, primitive_call, collectionVars>>

\* What a stage that was asked for type t returns.
BaseValue(t) == [by |-> "base_parser", type |-> t, of |-> None]

ConvertedValue(t, first) == [by |-> "converter", type |-> t, of |-> first.type]

\* Mutant: a failure of a stage is swallowed and the chain goes on.
PropagatesNever(outcome) == FALSE

\* A stage that raises ends the primitive: neither primitive has a handler.
Propagates(outcome) == outcome # "ok"

\* The two statements shared by _parse_singlefile and _parse_multifile: call
\* the base parser's primitive for type t, then converter.convert.
BaseThenConvert(op, primitive, t, desired_type, base, conv) ==
    LET first == BaseValue(t)
        call1 == [callee |-> primitive, type |-> t, arg |-> NoValue]
        call2 == [callee |-> "converter.convert", type |-> desired_type, arg |-> first]
        done(calls, kind, value) ==
            [op |-> op, desired_type |-> desired_type, base |-> base, conv |-> conv,
             calls |-> calls, kind |-> kind, value |-> value]
    IN IF Propagates(base) THEN done(<<call1>>, base, NoValue)
       ELSE IF Propagates(conv) THEN done(<<call1, call2>>, conv, NoValue)
       ELSE done(<<call1, call2>>, "returned", ConvertedValue(desired_type, first))

\* ParsingChain._parse_singlefile(desired_type, ...)
_parse_singlefile(ch, desired_type, base, conv) ==
    BaseThenConvert("singlefile", "base_parser._parse_singlefile",
                    ch.converter.from_type, desired_type, base, conv)

\* ParsingChain._parse_multifile(desired_type, ...)
_parse_multifile(ch, desired_type, base, conv) ==
    BaseThenConvert("multifile", "base_parser._parse_multifile",
                    desired_type, desired_type, base, conv)

ParseSinglefile ==
    /\ chain.built
    /\ \E desired_type \in Types, base \in BaseOutcomes, conv \in ConverterOutcomes :
         parse' = _parse_singlefile(chain, desired_type, base, conv)
    /\ UNCHANGED <<chain_call, chain, parserVars, planVars, primitive_call, collectionVars>>

ParseMultifile ==
    /\ chain.built
    /\ \E desired_type \in Types, base \in BaseOutcomes, conv \in ConverterOutcomes :
         parse' = _parse_multifile(chain, desired_type, base, conv)
    /\ UNCHANGED <<chain_call, chain, parserVars, planVars, primitive_call, collectionVars>>

\* ---------------------------------------------- MultifileCollectionParser
\* The names a child of a multi-file object can have, in ascending order.
ChildOrder == <<"a", "b", "c">>

ChildNames == {ChildOrder[n] : n \in DOMAIN ChildOrder}

Range(seq) == {seq[n] : n \in DOMAIN seq}

\* get_multifile_children(): a dict of distinct names, in any iteration order.
ChildrenDicts ==
    {d \in UNION {[1..n -> ChildNames] : n \in 0..Len(ChildOrder)} :
        \A i, j \in DOMAIN d : d[i] = d[j] => i = j}

\* The desired collection types: Dict, List and Set of an item type "E", and
\* Tuple[E1, ..., Ek].
CollectionTypes ==
    [kind : {"dict", "list", "set"}, subtypes : {"E"}]
      \cup [kind : {"tuple"},
            subtypes : {SubSeq(<<"E1", "E2", "E3">>, 1, k) : k \in 0..Len(ChildOrder)}]

\* What finding a child's parser and building its plan can do, and what
\* executing a child's plan can do.
ChildPlanOutcomes == {"ok", "NoParserFoundError", "ParseError"}

ChildExecOutcomes == {"ok", "ParseError"}

NoType == [kind |-> None, subtypes |-> None]

NoPlanCall == [kind |-> None, log |-> <<>>]

NoMultifileParse == [kind |-> None, lazy_parsing |-> FALSE,
                     background_parsing |-> FALSE, log |-> <<>>]

\* asked = the keys whose item has been read so far (history).
NoCollection == [facade |-> None, lazy |-> FALSE, keys |-> <<>>, inner_dict |-> {},
                 asked |-> {}]

NoChildValue == [child |-> None]

\* index = -1: the item was not read by position.
NoRead == [kind |-> None, index |-> -1, key |-> None, log |-> <<>>,
           value |-> NoChildValue]

\* The values the children's files can parse to: two children with the same
\* content parse to values that are equal for Python's ==.
Contents == {"x", "y"}

\* What the children of an object hold: a content for each name that is a
\* child, None for the other names.
ContentsOf(children) ==
    {f \in [ChildNames -> Contents \cup {None}] :
        \A c \in ChildNames : (f[c] = None) <=> (c \notin Range(children))}

NoContents == [c \in ChildNames |-> None]

\* len = -1: the operation gave no length.
NoSetRead == [op |-> None, kind |-> None, len |-> -1, log |-> <<>>, yielded |-> <<>>]

\* Mutant: the children are taken in the dict's own iteration order.
unsorted(names) == names

\* sorted(...) over distinct child names
sorted(names) == SelectSeq(ChildOrder, LAMBDA x : x \in Range(names))

\* isinstance(subtypes, tuple), for the subtypes _extract_collection_base_type gives
IsTuple(desired_type) == desired_type.kind = "tuple"

\* Mutant: only a tuple with more element types than children is refused.
WrongTupleLengthWhenFewer(desired_type, n_children) ==
    IsTuple(desired_type) /\ n_children < Len(desired_type.subtypes)

\* FolderAndFilesStructureError when a tuple's length is not the children's
WrongTupleLength(desired_type, n_children) ==
    IsTuple(desired_type) /\ n_children # Len(desired_type.subtypes)

\* subtypes after the if: the tuple's own, else [subtypes] * n_children
Subtypes(desired_type, n_children) ==
    IF IsTuple(desired_type) THEN desired_type.subtypes
    ELSE [n \in 1..n_children |-> desired_type.subtypes]

RECURSIVE PlanLoop(_, _, _, _, _)
\* for (child_name, child_fileobject), child_typ in zip(sorted(...), subtypes):
\* G is the call so far: the dict being filled and the children visited.
PlanLoop(G, names, subtypes, n, o) ==
    IF n > Len(names) \/ n > Len(subtypes) THEN [G EXCEPT !.kind = "returned"]
    ELSE LET ev == [name |-> names[n], typ |-> subtypes[n], o |-> o[names[n]]]
             H == [G EXCEPT !.log = Append(G.log, ev)]
         IN IF o[names[n]] # "ok" THEN [H EXCEPT !.kind = o[names[n]]]
            ELSE PlanLoop([H EXCEPT !.children_plan =
                               Append(H.children_plan, [name |-> names[n], typ |-> subtypes[n]])],
                          names, subtypes, n + 1, o)

\* MultifileCollectionParser._get_parsing_plan_for_multifile_children, with
\* o the outcome of planning each child.
_get_parsing_plan_for_multifile_children(children, desired_type, o) ==
    LET n_children == Len(children)
        G == [kind |-> "running", log |-> <<>>, children_plan |-> <<>>]
    IN IF WrongTupleLength(desired_type, n_children)
       THEN [G EXCEPT !.kind = "FolderAndFilesStructureError"]
       ELSE PlanLoop(G, sorted(children), Subtypes(desired_type, n_children), 1, o)

\* A plan is built once for a multi-file object and a desired type.
GetChildrenPlan ==
    /\ plan_call = NoPlanCall
    /\ \E children \in ChildrenDicts, desired_type \in CollectionTypes,
          o \in [ChildNames -> ChildPlanOutcomes] :
         LET G == _get_parsing_plan_for_multifile_children(children, desired_type, o) IN
         /\ mf_children' = children
         /\ mf_desired_type' = desired_type
         /\ children_plan' = IF G.kind = "returned" THEN G.children_plan ELSE <<>>
         /\ plan_call' = [kind |-> G.kind, log |-> G.log]
         /\ mf_contents' \in ContentsOf(children)
    /\ mf_parse' = NoMultifileParse
    /\ collection' = NoCollection
    /\ read' = NoRead
    /\ set_read' = NoSetRead
    /\ UNCHANGED <<parserVars, planVars, chainVars, primitive_call>>

\* The value a child's plan gives when it is executed.
ChildValue(name) == [child |-> name]

RECURSIVE ExecLoopSwallows(_, _, _, _)
\* Mutant: a child whose execution fails is left out and the loop goes on.
ExecLoopSwallows(G, names, n, o) ==
    IF n > Len(names) THEN [G EXCEPT !.kind = "returned"]
    ELSE LET H == [G EXCEPT !.log = Append(G.log, [name |-> names[n], o |-> o[names[n]]])]
         IN ExecLoopSwallows(IF o[names[n]] # "ok" THEN H
                             ELSE [H EXCEPT !.results = H.results \cup
                                      {[name |-> names[n], value |-> ChildValue(names[n])]}],
                             names, n + 1, o)

RECURSIVE ExecLoop(_, _, _, _)
\* for child_name, child_plan in sorted(parsing_plan_for_children.items()):
\*     results[child_name] = child_plan.execute(...)
ExecLoop(G, names, n, o) ==
    IF n > Len(names) THEN [G EXCEPT !.kind = "returned"]
    ELSE LET H == [G EXCEPT !.log = Append(G.log, [name |-> names[n], o |-> o[names[n]]])]
         IN IF o[names[n]] # "ok" THEN [H EXCEPT !.kind = o[names[n]]]
            ELSE ExecLoop([H EXCEPT !.results = H.results \cup
                               {[name |-> names[n], value |-> ChildValue(names[n])]}],
                          names, n + 1, o)

\* The facade returned for the desired type.
Facade(desired_type) ==
    IF desired_type.kind = "list" THEN "KeySortedListFacadeForDict"
    ELSE IF desired_type.kind = "tuple" THEN "KeySortedTupleFacadeForDict"
    ELSE IF desired_type.kind = "set" THEN "SetFacadeForDict"
    ELSE "dict"

\* Mutant: background parsing is taken as a request to parse right now.
BackgroundParsingIgnored(lazy_parsing, background_parsing) == "now"

\* The branch _parse_multifile takes on its two flags.
ParsingMode(lazy_parsing, background_parsing) ==
    IF lazy_parsing /\ background_parsing
    THEN "ValueError: lazy_parsing and background_parsing cannot be set to true at the same time"
    ELSE IF lazy_parsing THEN "lazy"
    ELSE IF background_parsing THEN "ValueError: Background parsing is not yet supported"
    ELSE "now"

\* MultifileCollectionParser._parse_multifile, with o the outcome of
\* executing each child's plan.
_parse_multifile_collection(desired_type, plans, lazy_parsing, background_parsing, o) ==
    LET names == [n \in DOMAIN plans |-> plans[n].name]
        G == [kind |-> "running", log |-> <<>>, results |-> {}]
        mode == ParsingMode(lazy_parsing, background_parsing)
        done(H, lazy) ==
            [call |-> [kind |-> H.kind, lazy_parsing |-> lazy_parsing,
                       background_parsing |-> background_parsing, log |-> H.log],
             collection |-> IF H.kind = "returned"
                            THEN [facade |-> Facade(desired_type), lazy |-> lazy,
                                  keys |-> names, inner_dict |-> H.results,
                                  asked |-> {}]
                            ELSE NoCollection]
    IN IF mode = "lazy" THEN done([G EXCEPT !.kind = "returned"], TRUE)
       ELSE IF mode = "now" THEN done(ExecLoop(G, sorted(names), 1, o), FALSE)
       ELSE done([G EXCEPT !.kind = mode], FALSE)

ParseMultifileCollection ==
    /\ plan_call.kind = "returned"
    /\ \E lazy_parsing \in BOOLEAN, background_parsing \in BOOLEAN,
          o \in [ChildNames -> ChildExecOutcomes] :
         LET R == _parse_multifile_collection(mf_desired_type, children_plan,
                                              lazy_parsing, background_parsing, o) IN
         /\ mf_parse' = R.call
         /\ collection' = R.collection
    /\ read' = NoRead
    /\ set_read' = NoSetRead
    /\ UNCHANGED <<mf_children, mf_desired_type, children_plan, plan_call, mf_contents>>
    /\ UNCHANGED <<parserVars, planVars, chainVars, primitive_call>>

\* Mutant: the inner dict is never found to hold the key.
IsCachedNever(inner_dict, name) == FALSE

\* name in self.inner_dict.keys()
IsCached(inner_dict, name) == \E e \in inner_dict : e.name = name

\* The cached value of key `name` in an inner dict.
Cached(inner_dict, name) == (CHOOSE e \in inner_dict : e.name = name).value

\* Mutant: a lazy dictionary loads all its keys on the first read.
LoadedOnReadAll(coll, name) == Range(coll.keys)

\* The keys whose loading_method a read of `name` calls.
LoadedOnRead(coll, name) == {name}

\* LazyDictionary.__getitem__(name), with o the outcome of loading_method;
\* on a plain dict, dict.__getitem__.  Gives what the read returned or
\* raised, the children whose plans it executed, and the inner dict after.
GetItem(coll, name, o) ==
    IF IsCached(coll.inner_dict, name)
    THEN [kind |-> "returned", log |-> <<>>, value |-> Cached(coll.inner_dict, name),
          inner_dict |-> coll.inner_dict]
    ELSE IF coll.lazy /\ name \in Range(coll.keys)
    THEN LET loaded == sorted(SelectSeq(coll.keys, LAMBDA k : k \in LoadedOnRead(coll, name)))
         IN IF o = "ok"
            THEN [kind |-> "returned", log |-> loaded, value |-> ChildValue(name),
                  inner_dict |-> coll.inner_dict \cup
                     {[name |-> k, value |-> ChildValue(k)] : k \in Range(loaded)}]
            ELSE [kind |-> o, log |-> loaded, value |-> NoChildValue,
                  inner_dict |-> coll.inner_dict]
    ELSE [kind |-> "KeyError", log |-> <<>>, value |-> NoChildValue,
          inner_dict |-> coll.inner_dict]

\* _KeySortedSequenceFacadeForDict.__getitem__(index)
SequenceGetItem(coll, index, o) ==
    LET keys == sorted(coll.keys) IN
    IF index \notin 0..(Len(keys) - 1)
    THEN [kind |-> "IndexError", key |-> None, log |-> <<>>, value |-> NoChildValue,
          inner_dict |-> coll.inner_dict]
    ELSE [key |-> keys[index + 1]] @@ GetItem(coll, keys[index + 1], o)

IsSequenceFacade(coll) ==
    coll.facade \in {"KeySortedListFacadeForDict", "KeySortedTupleFacadeForDict"}

\* collection[index] on a list or tuple facade
ReadByIndex ==
    /\ IsSequenceFacade(collection)
    /\ \E index \in 0..Len(ChildOrder), o \in ChildExecOutcomes :
         LET R == SequenceGetItem(collection, index, o) IN
         /\ read' = [kind |-> R.kind, index |-> index, key |-> R.key, log |-> R.log,
                     value |-> R.value]
         /\ collection' = [collection EXCEPT !.inner_dict = R.inner_dict,
                                            !.asked = @ \cup ({R.key} \ {None})]
    /\ UNCHANGED <<mf_children, mf_desired_type, children_plan, plan_call, mf_parse,
                   mf_contents, set_read>>
    /\ UNCHANGED <<parserVars, planVars, chainVars, primitive_call>>

\* collection[key] on the dict returned as it is
ReadByKey ==
    /\ collection.facade = "dict"
    /\ \E key \in ChildNames, o \in ChildExecOutcomes :
         LET R == GetItem(collection, key, o) IN
         /\ read' = [kind |-> R.kind, index |-> -1, key |-> key, log |-> R.log,
                     value |-> R.value]
         /\ collection' = [collection EXCEPT !.inner_dict = R.inner_dict,
                                            !.asked = @ \cup {key}]
    /\ UNCHANGED <<mf_children, mf_desired_type, children_plan, plan_call, mf_parse,
                   mf_contents, set_read>>
    /\ UNCHANGED <<parserVars, planVars, chainVars, primitive_call>>

\* len(self._inner_dict): the entries of a dict, the loadable keys of a
\* LazyDictionary.
SetLen(coll) ==
    IF coll.lazy THEN Len(coll.keys) ELSE Cardinality(coll.inner_dict)

\* The keys of the inner dict in its iteration order: the loadable keys as
\* listed, or the order in which the children were executed.
IterationOrder(coll) == IF coll.lazy THEN coll.keys ELSE sorted(coll.keys)

RECURSIVE ValuesLoop(_, _, _, _)
\* iter(self._inner_dict.values()), consumed to its end: one item read per
\* key, with o the outcome of each loading_method call.  G is the iteration
\* so far: the plans executed, the values yielded and the inner dict.
ValuesLoop(G, coll, n, o) ==
    IF n > Len(IterationOrder(coll)) THEN [G EXCEPT !.kind = "returned"]
    ELSE LET key == IterationOrder(coll)[n]
             R == GetItem([coll EXCEPT !.inner_dict = G.inner_dict], key, o[key])
             H == [G EXCEPT !.log = G.log \o R.log, !.inner_dict = R.inner_dict]
         IN IF R.kind # "returned" THEN [H EXCEPT !.kind = R.kind]
            ELSE ValuesLoop([H EXCEPT !.yielded = Append(H.yielded, R.value)],
                            coll, n + 1, o)

\* SetFacadeForDict.__len__ and SetFacadeForDict.__iter__
SetFacadeRead(coll, op, o) ==
    LET G == [kind |-> "running", len |-> -1, log |-> <<>>, yielded |-> <<>>,
              inner_dict |-> coll.inner_dict]
    IN IF op = "len" THEN [G EXCEPT !.kind = "returned", !.len = SetLen(coll)]
       ELSE ValuesLoop(G, coll, 1, o)

\* len(collection) or list(collection) on a set facade
ReadSet ==
    /\ collection.facade = "SetFacadeForDict"
    /\ \E op \in {"len", "iter"}, o \in [ChildNames -> ChildExecOutcomes] :
         LET R == SetFacadeRead(collection, op, o) IN
         /\ set_read' = [op |-> op, kind |-> R.kind, len |-> R.len, log |-> R.log,
                         yielded |-> R.yielded]
         /\ collection' = [collection EXCEPT !.inner_dict = R.inner_dict,
                                            !.asked = @ \cup Range(R.log)
                                                        \cup {v.child : v \in Range(R.yielded)}]
    /\ UNCHANGED <<mf_children, mf_desired_type, children_plan, plan_call, mf_parse,
                   read, mf_contents>>
    /\ UNCHANGED <<parserVars, planVars, chainVars, primitive_call>>

\* ----------------------------------------------------------------- actions
Init ==
    /\ parsers_list = <<>>
    /\ configured = FALSE
    /\ supported_types = {}
    /\ supported_exts = {}
    /\ last_add = [parser |-> None, raised |-> FALSE]
    /\ plan_exists = FALSE
    /\ active_parser_idx = -1
    /\ active_parsing_plan = None
    /\ parsing_plan_creation_errors = <<>>
    /\ result = NoResult
    /\ log = <<>>
    /\ buildLog = <<>>
    /\ created = {}
    /\ execFailed = {}
    /\ failed = {}
    /\ cascadeRaised = FALSE
    /\ nExecutes = 0
    /\ chain_call = NoCall
    /\ chain = NoChain
    /\ parse = NoParse
    /\ primitive_call = NoPrimitiveCall
    /\ mf_children = <<>>
    /\ mf_desired_type = NoType
    /\ children_plan = <<>>
    /\ plan_call = NoPlanCall
    /\ mf_parse = NoMultifileParse
    /\ collection = NoCollection
    /\ read = NoRead
    /\ mf_contents = NoContents
    /\ set_read = NoSetRead

\* The checks of add_parser_to_cascade against the cascade's types and
\* extensions as they are after the `if not self.configured` block.
Incompatible(types, exts, p) ==
    \/ supports_singlefile(exts) /\ ~supports_singlefile(supported_exts_of(p))
    \/ supports_multifile(exts) /\ ~supports_multifile(supported_exts_of(p))
    \/ /\ "Any" \notin supported_types_of(p)
       /\ \/ "Any" \in types
          \/ types \ supported_types_of(p) # {}
    \/ exts \ supported_exts_of(p) # {}

\* CascadingParser.add_parser_to_cascade(parser)
add_parser_to_cascade(p) ==
    LET types == IF ~configured THEN supported_types_of(p) ELSE supported_types
        exts == IF ~configured THEN supported_exts_of(p) ELSE supported_exts
    IN /\ supported_types' = types
       /\ supported_exts' = exts
       /\ configured' = configured
       /\ parsers_list' = IF Incompatible(types, exts, p) THEN parsers_list
                          ELSE Append(parsers_list, p)
       /\ last_add' = [parser |-> p, raised |-> Incompatible(types, exts, p)]
       /\ UNCHANGED planVars
       /\ UNCHANGED <<chainVars, primitive_call, collectionVars>>

AddParser ==
    /\ Len(parsers_list) < MaxParsers
    /\ \E p \in ParserIds : add_parser_to_cascade(p)

\* Mutant: the constructor does not check the list's length.
HasMinLenUnchecked(list) == TRUE

\* check_var(parser_list, var_types=list, var_name='parser_list', min_len=1)
HasMinLen(list) == Len(list) >= 1

\* CascadingParser._create_parsing_plan: CascadingParsingPlan(...), whose
\* constructor raises when check_var(parser_list, min_len=1) fails or when no
\* candidate can be activated; the caller gets a plan only when it returns.
create_parsing_plan ==
    /\ ~plan_exists
    /\ nExecutes' = 0
    /\ cascadeRaised' = FALSE
    /\ execFailed' = {}
    /\ IF ~HasMinLen(parsers_list)
       THEN /\ result' = [op |-> "create", kind |-> "CheckVarError",
                          context |-> "parser_list", value |-> None, caught |-> <<>>,
                          n |-> 0]
            /\ log' = <<>>
            /\ buildLog' = <<>>
            /\ created' = {}
            /\ failed' = {}
            /\ UNCHANGED <<plan_exists, active_parser_idx, active_parsing_plan,
                           parsing_plan_creation_errors>>
       ELSE \E G \in PlanInit(parsers_list) :
            /\ result' = Observed("create", G, Len(parsers_list))
            /\ log' = G.log
            /\ buildLog' = G.log
            /\ created' = CreatedIn(G.log)
            /\ failed' = FailedIn(G.log)
            /\ plan_exists' = (G.status = "returned")
            /\ IF G.status = "returned"
               THEN /\ active_parser_idx' = G.idx
                    /\ active_parsing_plan' = G.plan
                    /\ parsing_plan_creation_errors' = G.errs
               ELSE UNCHANGED <<active_parser_idx, active_parsing_plan,
                                parsing_plan_creation_errors>>
    /\ UNCHANGED parserVars
    /\ UNCHANGED <<chainVars, primitive_call, collectionVars>>

\* Mutant: every execute starts over from the first candidate.
PlanFieldsRewound ==
    Frame(-1, active_parsing_plan, parsing_plan_creation_errors)

\* The plan's fields as execute finds them.
PlanFields ==
    Frame(active_parser_idx, active_parsing_plan, parsing_plan_creation_errors)

\* CascadingParsingPlan.execute(logger)
Execute ==
    /\ plan_exists
    /\ nExecutes < MaxExecutes
    /\ \E G \in execute(PlanFields, parsers_list) :
         /\ active_parser_idx' = G.idx
         /\ active_parsing_plan' = G.plan
         /\ parsing_plan_creation_errors' = G.errs
         /\ result' = Observed("execute", G, Len(parsers_list))
         /\ log' = G.log
         /\ created' = created \cup CreatedIn(G.log)
         /\ execFailed' = execFailed \cup ExecFailedIn(G.log)
         /\ failed' = failed \cup FailedIn(G.log)
         /\ cascadeRaised' = (cascadeRaised \/ G.exc.kind = "CascadeError")
    /\ nExecutes' = nExecutes + 1
    /\ UNCHANGED <<plan_exists, buildLog>>
    /\ UNCHANGED parserVars
    /\ UNCHANGED <<chainVars, primitive_call, collectionVars>>

Next == AddParser \/ create_parsing_plan \/ Execute

Spec == Init /\ [][Next]_vars

\* A caller invokes one of the cascade's own primitives directly.  The call
\* changes nothing of the cascade, so one such call per behaviour is explored.
InvokePrimitive ==
    /\ primitive_call = NoPrimitiveCall
    /\ \E primitive \in OwnPrimitives, desired_type \in Types :
         primitive_call' = [primitive |-> primitive,
                            outcome |-> DelegatingPrimitive(primitive, desired_type)]
    /\ UNCHANGED <<parserVars, planVars, chainVars, collectionVars>>

\* The cascade with its inherited primitives open to direct calls.
DelegatingNext == Next \/ InvokePrimitive

DelegatingSpec == Init /\ [][DelegatingNext]_vars

\* The calls on a ParsingChain.
ChainNext == NewParsingChain \/ ParseSinglefile \/ ParseMultifile

ChainSpec == Init /\ [][ChainNext]_vars

\* The calls on a MultifileCollectionParser and on the collection it returns.
CollectionNext ==
    GetChildrenPlan \/ ParseMultifileCollection \/ ReadByIndex \/ ReadByKey \/ ReadSet

CollectionSpec == Init /\ [][CollectionNext]_vars

\* ================================================================== claims
\* The candidate at Python index i.
Candidate(i) == parsers_list[i + 1]

\* The first n candidates are n different parser objects.
Distinct(n) == \A i, j \in 0..(n - 1) : Candidate(i) = Candidate(j) => i = j

\* Lowest index at which parser p sits in the list.
IndexOf(p) == CHOOSE i \in 0..(Len(parsers_list) - 1) :
                /\ Candidate(i) = p
                /\ \A j \in 0..(i - 1) : Candidate(j) # p

\* A build_plan that raised, or a build_plan followed by exactly one execute.
BuildThenOneExecute ==
    \/ result.op = "create" /\ result.kind = "CascadeError"
    \/ result.op = "execute" /\ nExecutes = 1

\* Every attempt made by build_plan and that one execute, in order.
Trail == IF result.op = "execute" THEN buildLog \o log ELSE log

\* No parser was seen to do two different things at the same phase.
Deterministic(T) ==
    \A m, n \in DOMAIN T :
        (T[m].op = T[n].op /\ Candidate(T[m].i) = Candidate(T[n].i)) => T[m].o = T[n].o

ConstructionSucceeds(T, p) ==
    \E n \in DOMAIN T : T[n].op = "create" /\ Candidate(T[n].i) = p /\ T[n].o = "ok"

ExecutionSucceeds(T, p) ==
    \E n \in DOMAIN T : T[n].op = "execute" /\ Candidate(T[n].i) = p /\ T[n].o = "ok"

SomePhaseFails(T, p) ==
    \E n \in DOMAIN T : Candidate(T[n].i) = p /\ T[n].o # "ok"

\* C1: with deterministic candidates, build_plan followed by one execute
\* returns the value of the lowest-index candidate whose construction and
\* execution both succeed (every candidate before it fails one of the two),
\* and ends in a CascadeError exactly when every candidate fails one of them.
C1_FirstWorkingCandidateWins ==
    (BuildThenOneExecute /\ result.n >= 1 /\ Deterministic(Trail)) =>
        \/ /\ result.kind = "returned"
           /\ \E k \in 0..(result.n - 1) :
                /\ result.value = Candidate(k)
                /\ active_parser_idx = k
                /\ ConstructionSucceeds(Trail, Candidate(k))
                /\ ExecutionSucceeds(Trail, Candidate(k))
                /\ \A j \in 0..(k - 1) : SomePhaseFails(Trail, Candidate(j))
           /\ \E n \in DOMAIN Trail : Trail[n].op = "execute" /\ Trail[n].o = "ok"
        \/ /\ result.kind = "CascadeError"
           /\ \A j \in 0..(result.n - 1) :
                /\ SomePhaseFails(Trail, Candidate(j))
                /\ ~(ConstructionSucceeds(Trail, Candidate(j))
                     /\ ExecutionSucceeds(Trail, Candidate(j)))

\* The third of three distinct candidates wins after the first failed its
\* construction and the second its execution.
C1_Witness ==
    /\ result.op = "execute" /\ nExecutes = 1 /\ result.kind = "returned"
    /\ Len(parsers_list) = 3 /\ Distinct(3) /\ Deterministic(Trail)
    /\ result.value = Candidate(2)
    /\ 0 \in failed /\ 0 \notin execFailed
    /\ 1 \in execFailed

\* C2: within a call, plan construction of candidate i is attempted only
\* right after the failed construction of candidate i-1, or as the first
\* attempt of an activation, which starts one past the active index; and a
\* successful construction ends the activation with that candidate active.
C2_CandidatesTriedInListOrder ==
    \A n \in DOMAIN log :
        log[n].op = "create" =>
            /\ IF n = 1
               THEN result.op = "create" /\ log[n].i = 0
               ELSE /\ log[n - 1].o # "ok"
                    /\ log[n].i = log[n - 1].i + 1
            /\ log[n].o = "ok" =>
                 IF n = Len(log)
                 THEN /\ active_parser_idx = log[n].i
                      /\ active_parsing_plan = Candidate(log[n].i)
                 ELSE log[n + 1] = Event("execute", log[n].i, log[n + 1].o)

\* [A, B, C] where only C's construction succeeds: A, then B, then C.
C2_Witness ==
    /\ result.op = "create" /\ Len(parsers_list) = 3 /\ Distinct(3)
    /\ Len(log) = 3
    /\ log[1].i = 0 /\ log[1].o # "ok"
    /\ log[2].i = 1 /\ log[2].o # "ok"
    /\ log[3] = Event("create", 2, "ok")
    /\ active_parser_idx = 2

\* C3 (as claimed): after an execute that raised CascadeError, every later
\* execute fails and touches no candidate that had already failed.
C3_ExhaustionIsTerminal ==
    [][(cascadeRaised /\ nExecutes' = nExecutes + 1) =>
          /\ result'.kind # "returned"
          /\ \A n \in DOMAIN log' : log'[n].i \notin failed]_vars

\* Index order of the entries of an aggregate.
Ascending(caught) ==
    \A m, n \in DOMAIN caught :
        m < n => IndexOf(caught[m].parser) < IndexOf(caught[n].parser)

\* C4 (as claimed): the entries of every CascadeError aggregate are in
\* ascending order of candidate index.
C4_AggregateInPriorityOrder ==
    (result.kind = "CascadeError" /\ Distinct(Len(parsers_list))) =>
        Ascending(result.caught)

\* C5 (as claimed): a CascadeError raised by execute holds an entry for
\* every candidate of the list and for every candidate that failed since
\* the plan was created, earlier execute calls included.
C5_AggregateHoldsEveryFailure ==
    (result.op = "execute" /\ result.kind = "CascadeError") =>
        /\ \A i \in 0..(result.n - 1) : Candidate(i) \in Keys(result.caught)
        /\ \A i \in failed : Candidate(i) \in Keys(result.caught)

\* Every candidate of the list failed its plan construction in build_plan.
AllFailedConstruction ==
    /\ result.op = "create"
    /\ Len(log) = result.n
    /\ \A n \in DOMAIN log : log[n] = Event("create", n - 1, log[n].o) /\ log[n].o # "ok"

\* C6: when each of N >= 1 distinct candidates fails plan construction,
\* build_plan raises the plan-construction CascadeError, and its aggregate
\* holds exactly one entry per candidate, the candidate's construction
\* failure.
C6_AllConstructionFailuresAggregated ==
    (AllFailedConstruction /\ result.n >= 1 /\ Distinct(result.n)) =>
        /\ result.kind = "CascadeError"
        /\ result.context = "creation"
        /\ ~plan_exists
        /\ Len(result.caught) = result.n
        /\ \A i \in 0..(result.n - 1) :
             Cardinality({m \in DOMAIN result.caught :
                            result.caught[m].parser = Candidate(i)}) = 1
        /\ \A m \in DOMAIN result.caught :
             /\ result.caught[m].phase = "creation"
             /\ result.caught[m].kind = log[IndexOf(result.caught[m].parser) + 1].o

\* Three distinct candidates, all failing construction.
C6_Witness ==
    /\ AllFailedConstruction /\ result.n = 3 /\ Distinct(3)
    /\ result.kind = "CascadeError" /\ Len(result.caught) = 3

\* The active index at the moment attempt n of the call's log was made:
\* the index of the latest earlier attempt that activated or executed a
\* plan, else the index the call started with.
ActiveAt(L, n, start) ==
    LET earlier == {m \in 1..(n - 1) : L[m].op = "execute" \/ L[m].o = "ok"}
    IN IF earlier = {} THEN start
       ELSE L[CHOOSE m \in earlier : \A k \in earlier : k <= m].i

\* C7: over the execute calls of a plan, active_parser_idx never decreases,
\* construction is attempted only for indices above the active index of the
\* moment, and never for a candidate whose execution has failed.
C7_CursorOnlyMovesForward ==
    [][(plan_exists /\ nExecutes' = nExecutes + 1) =>
          /\ active_parser_idx' >= active_parser_idx
          /\ \A n \in DOMAIN log' :
               log'[n].op = "create" =>
                  /\ log'[n].i > ActiveAt(log', n, active_parser_idx)
                  /\ log'[n].i \notin execFailed
                  /\ \A m \in 1..(n - 1) :
                       log'[m].op = "execute" => log'[m].i # log'[n].i]_vars

\* A second execute in which the active candidate failed and the cascade
\* moved on to a later one.
C7_Witness ==
    /\ nExecutes = 2 /\ result.op = "execute"
    /\ Len(log) >= 3 /\ log[1].op = "execute" /\ log[1].o # "ok"
    /\ active_parser_idx = 2 /\ result.kind = "returned"

\* No index occurs twice among the attempts of L at phase op.
NoRepeat(L, op) ==
    \A m, n \in DOMAIN L : (L[m].op = op /\ L[n].op = op /\ L[m].i = L[n].i) => m = n

\* C8: until an execute of the plan has raised CascadeError (that call
\* included), no call attempts the construction of a candidate whose
\* construction was attempted before, nor executes a candidate whose
\* execution has failed.
C8_NoCandidateTriedTwice ==
    [][/\ (~plan_exists /\ result'.op = "create" /\ result' # result) =>
             NoRepeat(log', "create")
       /\ (plan_exists /\ ~cascadeRaised /\ nExecutes' = nExecutes + 1) =>
             /\ NoRepeat(log', "create")
             /\ NoRepeat(log', "execute")
             /\ \A n \in DOMAIN log' :
                  /\ log'[n].op = "create" => log'[n].i \notin created
                  /\ log'[n].op = "execute" => log'[n].i \notin execFailed]_vars

\* The first CascadeError of a plan over three candidates, each of which
\* had its construction attempted.
C8_Witness ==
    /\ cascadeRaised /\ nExecutes = 1 /\ result.n = 3
    /\ created = {0, 1, 2} /\ execFailed # {}

\* C9: with at least one candidate, a call that fails after candidates
\* failed fails with a CascadeError: no candidate's own failure is what the
\* caller of build_plan or execute observes.
C9_OnlyCascadeErrorSurfaces ==
    (result.op # "none" /\ result.n >= 1) =>
        /\ result.kind \notin ExceptionKinds
        /\ result.kind \in {"returned", "CascadeError"}
        /\ (result.kind # "returned") =>
              /\ result.kind = "CascadeError"
              /\ log # <<>> /\ log[Len(log)].o # "ok"

\* One candidate's ordinary failure, observed as a CascadeError.
C9_Witness ==
    /\ result.n = 1 /\ result.kind = "CascadeError"
    /\ log = <<Event("create", 0, "ParseError")>>

\* C10 (as claimed): an internal-invariant failure of a candidate ends the
\* call at once: it is the last attempt of the call and is what the caller
\* observes.
C10_InternalFailurePropagates ==
    \A n \in DOMAIN log :
        log[n].o = "InternalError" =>
            /\ n = Len(log)
            /\ result.kind = "InternalError"

\* ------------------------------------------------- claims on the candidates
\* A step that is a call of add_parser_to_cascade.
AddStep == parsers_list' # parsers_list \/ last_add' # last_add

\* The descriptor the first candidate gave the cascade.
FirstTypes == supported_types_of(parsers_list[1])

FirstExts == supported_exts_of(parsers_list[1])

\* C11 (as claimed): adding a candidate without single-file support to a
\* cascade that holds a candidate and supports single-file parsing raises,
\* and leaves the candidate list as it was.
C11_SingleFileRegressionRejected ==
    [][(/\ AddStep
        /\ Len(parsers_list) >= 1
        /\ supports_singlefile(supported_exts)
        /\ ~supports_singlefile(supported_exts_of(last_add'.parser))) =>
          /\ last_add'.raised
          /\ parsers_list' = parsers_list]_vars

\* C12 (as claimed): a cascade whose first candidate supports "Any" rejects
\* a later candidate with a finite set of types, and a cascade whose first
\* candidate supports a finite set accepts a later candidate that supports
\* "Any" and covers the cascade's file kinds and extensions.
C12_WildcardRule ==
    [][(AddStep /\ Len(parsers_list) >= 1) =>
          LET p == last_add'.parser IN
          /\ ("Any" \in FirstTypes /\ "Any" \notin supported_types_of(p)) =>
                (last_add'.raised /\ parsers_list' = parsers_list)
          /\ (/\ "Any" \notin FirstTypes
              /\ "Any" \in supported_types_of(p)
              /\ FirstExts \subseteq supported_exts_of(p)) =>
                (~last_add'.raised /\ parsers_list' = Append(parsers_list, p))]_vars

\* C13 (as claimed): the types and extensions a cascade advertises are
\* those of the first candidate of its list.
C13_AdvertisesFirstCandidate ==
    Len(parsers_list) >= 1 =>
        /\ supported_types = FirstTypes
        /\ supported_exts = FirstExts

\* C14 (as claimed): every candidate of the list covers what the cascade
\* advertises: its extensions, and its types unless the candidate supports
\* "Any".
C14_CandidatesCoverCascade ==
    \A n \in DOMAIN parsers_list :
        /\ supported_exts \subseteq supported_exts_of(parsers_list[n])
        /\ \/ "Any" \in supported_types_of(parsers_list[n])
           \/ supported_types \subseteq supported_types_of(parsers_list[n])

\* C15: build_plan on a cascade without candidates fails with an error that
\* is not a CascadeError and gives no plan to execute; build_plan and
\* execute on a cascade with candidates that all fail end in a CascadeError.
C15_EmptyCascadeFailsDistinctly ==
    /\ (result.op # "none" /\ result.n = 0) =>
          /\ result.op = "create"
          /\ result.kind \notin {"returned", "CascadeError"}
          /\ ~plan_exists
    /\ (result.op # "none" /\ result.n >= 1 /\ result.kind # "returned") =>
          /\ result.kind = "CascadeError"
          /\ \A n \in DOMAIN log : n = Len(log) => log[n].o # "ok"
    /\ plan_exists => active_parsing_plan # None

\* build_plan was called on the empty cascade.
C15_Witness ==
    /\ parsers_list = <<>>
    /\ result.op = "create" /\ result.n = 0 /\ result.kind = "CheckVarError"

\* C16 (as claimed): adding a candidate once the plan is built changes
\* nothing of what a later execute of the plan can try and return.
C16_PlanUnaffectedByLaterAdd ==
    [][(plan_exists /\ parsers_list' # parsers_list) =>
          execute(PlanFields, parsers_list') = execute(PlanFields, parsers_list)]_vars

\* --------------------------------------------------- claims on ParsingChain
\* The last ParsingChain(...) call raised and gave the caller no chain.
ConstructionFailed == chain_call.error # None /\ ~chain.built

ConstructionSucceeded == chain_call.error = None /\ chain.built

\* A ParsingChain(...) call has been made.
Called == chain_call.base_parser # NoParser

\* The converter of the last call accepts type t under the call's strictness.
Accepts(t) == is_able_to_convert(chain_call.converter, chain_call.strict, t)

SeveralTypes == Cardinality(chain_call.base_parser.supported_types) >= 2

Chosen == chain_call.base_parser_chosen_dest_type

C19_BaseThenConverter ==
    parse.op = "singlefile" =>
        /\ parse.calls[1] = [callee |-> "base_parser._parse_singlefile",
                             type |-> chain.converter.from_type, arg |-> NoValue]
        /\ parse.base # "ok" => (Len(parse.calls) = 1 /\ parse.kind = parse.base)
        /\ parse.base = "ok" =>
              /\ Len(parse.calls) = 2
              /\ parse.calls[2] = [callee |-> "converter.convert",
                                   type |-> parse.desired_type,
                                   arg |-> BaseValue(chain.converter.from_type)]
              /\ parse.conv # "ok" => parse.kind = parse.conv
              /\ parse.conv = "ok" =>
                    /\ parse.kind = "returned"
                    /\ parse.value.by = "converter"
                    /\ parse.value.type = parse.desired_type

\* The base parser failed on a single file.
C19_Witness ==
    /\ parse.op = "singlefile"
    /\ parse.base = "ParseError"
    /\ parse.kind = "ParseError"

\* C20: a chain that was built advertises one type, the converter's to_type,
\* and the extensions of its base parser.
C20_ChainAdvertisesConverterOutput ==
    chain.built =>
        /\ Cardinality(chain.supported_types) = 1
        /\ chain.supported_types = {chain_call.converter.to_type}
        /\ chain.supported_exts = chain_call.base_parser.supported_exts

\* A chain over a base parser that also reads multi-file objects.
C20_Witness ==
    /\ chain.built
    /\ chain_call.base_parser.supported_exts = {".txt", MULTIFILE_EXT}
    /\ chain_call.converter.to_type = "T3"

\* ------------------------------------------------ claims, second series
\* C21: each of the three parse primitives of a DelegatingParser raises the
\* internal error whatever it is called with, and the calls build_plan and
\* execute make are create_parsing_plan and execute on candidates of the
\* list: they leave the cascade's own primitives uncalled.
C21_OwnPrimitivesUnreachable ==
    /\ [](/\ primitive_call.primitive \in ParserPrimitives =>
                primitive_call.outcome = "Exception: This should never happen"
          /\ \A n \in DOMAIN log :
                /\ log[n].op \in {"create", "execute"}
                /\ log[n].op \notin OwnPrimitives
                /\ log[n].i \in 0..(Len(parsers_list) - 1))
    /\ [][(result' # result \/ log' # log) => primitive_call' = primitive_call]_vars

\* The single-file primitive was called directly on a cascade that holds a
\* plan which has been executed.
C21_Witness ==
    /\ primitive_call.primitive = "_parse_singlefile"
    /\ primitive_call.outcome = "Exception: This should never happen"
    /\ result.op = "execute"
FreshRuns ==
    UNION { IF G.status # "returned"
            THEN {[exc |-> G.exc, trail |-> G.log]}
            ELSE {[exc |-> H.exc, trail |-> G.log \o H.log]
                  : H \in execute(Frame(G.idx, G.plan, G.errs), parsers_list)}
          : G \in PlanInit(parsers_list) }

\* The candidates an aggregate lists, in its order.
Listed(caught) == [n \in DOMAIN caught |-> caught[n].parser]

C24_CascadeErrorOnlyWhenAllFailed ==
    result.kind = "CascadeError" =>
        /\ result.n >= 1
        /\ \A i \in 0..(result.n - 1) : i \in failed
        /\ \A i \in 0..(result.n - 1) : i \in created \/ i \in execFailed

\* execute raised on three candidates: one failed its execution, another
\* never got further than its plan construction.
C24_Witness ==
    /\ result.op = "execute" /\ result.kind = "CascadeError" /\ result.n = 3
    /\ execFailed # {}
    /\ \E i \in 0..2 : i \in failed /\ i \notin execFailed
\* C25 (as claimed): the plan's parsing_plan_creation_errors gets entries
\* only for candidates whose plan construction failed: every key a call adds
\* to it is a candidate whose construction failed during that call.
C25_CreationErrorsHoldOnlyCreationFailures ==
    [][plan_exists' =>
          \A p \in Keys(parsing_plan_creation_errors') \ Keys(parsing_plan_creation_errors) :
             \E n \in DOMAIN log' :
                /\ log'[n].op = "create"
                /\ log'[n].o # "ok"
                /\ parsers_list[log'[n].i + 1] = p]_vars
\* C26: an execute whose active plan executes without failure returns that
\* plan's result after this one attempt, and leaves active_parser_idx,
\* active_parsing_plan and parsing_plan_creation_errors as they were.
C26_SuccessfulExecuteChangesNothing ==
    [][(/\ nExecutes' = nExecutes + 1
        /\ log' # <<>>
        /\ log'[1].op = "execute"
        /\ log'[1].o = "ok") =>
          /\ log' = <<Event("execute", active_parser_idx, "ok")>>
          /\ result'.kind = "returned"
          /\ result'.value = active_parsing_plan
          /\ active_parser_idx' = active_parser_idx
          /\ active_parsing_plan' = active_parsing_plan
          /\ parsing_plan_creation_errors' = parsing_plan_creation_errors]_vars

\* The second candidate's plan was executed with success, on a plan that
\* holds the first candidate's construction failure.
C26_Witness ==
    /\ result.op = "execute" /\ result.kind = "returned"
    /\ log = <<Event("execute", 1, "ok")>>
    /\ active_parser_idx = 1
    /\ Keys(parsing_plan_creation_errors) = {Candidate(0)}
\* C27 (as claimed): the type a built chain restricts its base parser to,
\* the given base_parser_chosen_dest_type or else the parser's only type, is
\* one of the base parser's supported types.
C27_RestrictedTypeIsSupported ==
    chain.built =>
        parser_out_type(chain_call.base_parser, Chosen) \in chain_call.base_parser.supported_types
\* ------------------------------------- claims on the collection parser
\* Position of a child name in the ascending order of names.
Rank(name) == CHOOSE n \in DOMAIN ChildOrder : ChildOrder[n] = name

\* The names of the entries of a log or of a dict, in their order.
Names(entries) == [n \in DOMAIN entries |-> entries[n].name]

\* The entries follow each other in ascending order of name, and no child
\* of `among` with a smaller name than a visited one was passed over.
AscendingNoGap(entries, among) ==
    /\ \A m, n \in DOMAIN entries : m < n => Rank(entries[m].name) < Rank(entries[n].name)
    /\ \A n \in DOMAIN entries : entries[n].name \in among
    /\ \A n \in DOMAIN entries : \A c \in among :
          Rank(c) < Rank(entries[n].name) => \E m \in 1..(n - 1) : entries[m].name = c

\* Every entry but the last succeeded, and the last one failed.
StoppedAtFirstFailure(entries) ==
    /\ entries # <<>>
    /\ \A n \in DOMAIN entries : (entries[n].o # "ok") <=> (n = Len(entries))

AllOk(entries) == \A n \in DOMAIN entries : entries[n].o = "ok"

\* C28: the children's plans are built in ascending order of child name,
\* one per child; the call returns only when every child's plan was built,
\* and the first child whose plan construction fails ends the call with that
\* failure, no later child being planned and no dict of plans returned.
C28_ChildrenPlannedInNameOrder ==
    (plan_call.kind # None /\ plan_call.kind # "FolderAndFilesStructureError") =>
        /\ AscendingNoGap(plan_call.log, Range(mf_children))
        /\ IF plan_call.kind = "returned"
           THEN /\ AllOk(plan_call.log)
                /\ Range(Names(plan_call.log)) = Range(mf_children)
                /\ Names(children_plan) = Names(plan_call.log)
                /\ Len(children_plan) = Len(mf_children)
           ELSE /\ StoppedAtFirstFailure(plan_call.log)
                /\ plan_call.kind = plan_call.log[Len(plan_call.log)].o
                /\ children_plan = <<>>

\* The object lists its children as c, a, b; a was planned, b failed, and c
\* was left unplanned.
C28_Witness ==
    /\ mf_children = <<"c", "a", "b">>
    /\ Names(plan_call.log) = <<"a", "b">>
    /\ plan_call.kind = "ParseError"
\* C29: with neither flag set, _parse_multifile executes the children's
\* plans in ascending order of child name; it returns the collection of all
\* the children's values when every execution succeeded, and the first
\* execution that fails ends the call with that failure, no later child
\* being executed.
C29_ChildrenExecutedInNameOrder ==
    (mf_parse.kind # None /\ ~mf_parse.lazy_parsing /\ ~mf_parse.background_parsing) =>
        /\ AscendingNoGap(mf_parse.log, Range(Names(children_plan)))
        /\ IF mf_parse.kind = "returned"
           THEN /\ AllOk(mf_parse.log)
                /\ Range(Names(mf_parse.log)) = Range(Names(children_plan))
                /\ {e.name : e \in collection.inner_dict} = Range(Names(children_plan))
                /\ \A e \in collection.inner_dict : e.value = ChildValue(e.name)
           ELSE /\ StoppedAtFirstFailure(mf_parse.log)
                /\ mf_parse.kind = mf_parse.log[Len(mf_parse.log)].o
                /\ collection = NoCollection

\* Of three children the second failed its execution: the third was left.
C29_Witness ==
    /\ ~mf_parse.lazy_parsing /\ ~mf_parse.background_parsing
    /\ Len(children_plan) = 3
    /\ Names(mf_parse.log) = <<"a", "b">>
    /\ mf_parse.kind = "ParseError"

\* A step that reads an item of the returned collection.
ReadStep == read'.kind # None /\ (read' # read \/ collection' # collection)

\* What holds of every lazy parse and lazy read, whenever plans are executed.
LazyParseExecutesNothing ==
    /\ (mf_parse.kind # None /\ mf_parse.lazy_parsing /\ ~mf_parse.background_parsing) =>
          /\ mf_parse.kind = "returned"
          /\ mf_parse.log = <<>>
          /\ collection.lazy
          /\ collection.asked = {} => collection.inner_dict = {}
    /\ (collection.lazy /\ read.kind # None) =>
          /\ \A n \in DOMAIN read.log : read.log[n] = read.key
          /\ Len(read.log) <= 1
          /\ (IsSequenceFacade(collection) /\ read.key # None) =>
                Cardinality({c \in Range(collection.keys) : Rank(c) < Rank(read.key)})
                   = read.index

\* C30 (as claimed): a lazy parse returns without executing any child plan;
\* a child's plan is executed only by the first read of its item; a read at
\* position i of a list or tuple executes no plan but that of the i-th
\* child in name order.
C30_LazyExecutesAtFirstRead ==
    /\ []LazyParseExecutesNothing
    /\ [][(ReadStep /\ collection.lazy /\ read'.log # <<>>) =>
             read'.key \notin collection.asked]_vars

\* C30 (amended): a lazy parse returns without executing any child plan; a
\* child's plan is executed only by a read of its item made while no value
\* is held for it, which is its first read and every later read made after
\* all earlier reads of it failed; a read at position i of a list or tuple
\* executes no plan but that of the i-th child in name order.
C30_LazyExecutesWhenReadAndNotHeld ==
    /\ []LazyParseExecutesNothing
    /\ [][(ReadStep /\ collection.lazy) =>
             /\ read'.log # <<>> =>
                   \A e \in collection.inner_dict : e.name # read'.key
             /\ (read'.key \in Range(collection.keys) /\ read'.key \notin collection.asked) =>
                   read'.log = <<read'.key>>
             /\ \A e \in collection.inner_dict : e \in collection'.inner_dict
             /\ \A e \in collection'.inner_dict \ collection.inner_dict :
                   e.name = read'.key /\ read'.kind = "returned"]_vars

\* The item at position 1 of a lazy list over three children was read: the
\* plan of child b, and no other, was executed.
C30_Witness ==
    /\ collection.lazy
    /\ collection.facade = "KeySortedListFacadeForDict"
    /\ Len(collection.keys) = 3
    /\ read.index = 1 /\ read.key = "b" /\ read.log = <<"b">>
    /\ {e.name : e \in collection.inner_dict} = {"b"}

\* ------------------------------------------------- claims, third series
\* C31: when the desired type is a tuple of k element types and the object
\* has n children, the children's plans are refused with the folder-structure
\* error exactly when n differs from k, and then no child was planned; a
\* desired type that is not a tuple never meets that error.
C31_TupleLengthChecked ==
    plan_call.kind # None =>
        /\ (plan_call.kind = "FolderAndFilesStructureError") <=>
              (/\ mf_desired_type.kind = "tuple"
               /\ Len(mf_children) # Len(mf_desired_type.subtypes))
        /\ plan_call.kind = "FolderAndFilesStructureError" =>
              (plan_call.log = <<>> /\ children_plan = <<>>)

\* A tuple of two element types was asked of an object with three children.
C31_Witness ==
    /\ mf_desired_type.kind = "tuple"
    /\ Len(mf_desired_type.subtypes) = 2
    /\ Len(mf_children) = 3
    /\ plan_call.kind = "FolderAndFilesStructureError"
    /\ plan_call.log = <<>>

\* A step that is one execute call on the plan.
ExecuteStep == nExecutes' = nExecutes + 1

\* The candidate plans a call executed, by index, in the order it ran them.
Executed(L) == SelectSeq(L, LAMBDA ev : ev.op = "execute")

\* C32: an execute call on a plan over N candidates ends, with a value or
\* with an exception, and the candidate plans it executes are those of
\* distinct candidates from the active index on, in ascending order: at most
\* N - active_index of them.
C32_ExecuteEndsWithinRemainingCandidates ==
    [][ExecuteStep =>
          /\ result'.op = "execute"
          /\ result'.kind \in {"returned", "CascadeError"} \cup ExceptionKinds
          /\ Len(Executed(log')) <= Len(parsers_list) - active_parser_idx
          /\ \A n \in DOMAIN Executed(log') :
                Executed(log')[n].i \in active_parser_idx..(Len(parsers_list) - 1)
          /\ \A m, n \in DOMAIN Executed(log') :
                m < n => Executed(log')[m].i < Executed(log')[n].i]_vars

\* An execute call ran every candidate from the active one to the last one,
\* two of them at least.
C32_Witness ==
    /\ result.op = "execute"
    /\ Len(Executed(log)) >= 2
    /\ Len(Executed(log)) = result.n - Executed(log)[1].i

\* C33: the plan the caller was given has, between any two calls on it, a
\* cursor on a candidate of the list and an active plan, the one built by the
\* candidate the cursor is on; no execute call on it ends in the "empty
\* parser list" branch.
C33_ReturnedPlanHasActiveCandidate ==
    plan_exists =>
        /\ 0 <= active_parser_idx
        /\ active_parser_idx < Len(parsers_list)
        /\ active_parsing_plan # None
        /\ active_parsing_plan = Candidate(active_parser_idx)
        /\ result.context # "empty parser list"

\* The second execute call on a plan raised the aggregate error, the first
\* having done so already: the cursor and the active plan are still there.
C33_Witness ==
    /\ plan_exists
    /\ nExecutes = 2
    /\ cascadeRaised
    /\ result.op = "execute"
    /\ result.kind = "CascadeError"
    /\ Len(parsers_list) >= 2
    /\ active_parsing_plan = Candidate(active_parser_idx)

\* C34 (as claimed): in _parse_singlefile and in _parse_multifile alike, the
\* chain calls its base parser's primitive with the converter's from_type as
\* the type to produce, and then converter.convert on what the base parser
\* returned.
C34_BaseParserAskedForSourceType ==
    parse.op # "none" =>
        /\ parse.calls[1].callee \in {"base_parser._parse_singlefile",
                                     "base_parser._parse_multifile"}
        /\ parse.calls[1].type = chain.converter.from_type
        /\ parse.base = "ok" =>
              /\ Len(parse.calls) = 2
              /\ parse.calls[2].callee = "converter.convert"
              /\ parse.calls[2].arg = BaseValue(parse.calls[1].type)

\* The collection's inner dict holds a value for key `name`.
Holds(name) == \E e \in collection.inner_dict : e.name = name

\* A step that takes the length of a returned set or iterates it.
SetReadStep ==
    set_read'.kind # None /\ (set_read' # set_read \/ collection' # collection)

\* C35: on a lazy dictionary, a read of a key whose value is held returns
\* that value without calling the loading method and changes nothing; a read
\* that calls the loading method and gets a value stores it under the key
\* read, and no stored value is ever replaced or removed, so that the method
\* is called at most once for a key it has loaded; a read whose load fails
\* stores nothing; a read of a key outside the loadable keys raises KeyError
\* without calling the loading method.  The same holds of the item reads an
\* iteration of the dictionary's values makes.
C35_LoadedOnceAndKept ==
    /\ [](\A e, f \in collection.inner_dict : e.name = f.name => e = f)
    /\ [][(ReadStep /\ collection.lazy /\ read'.key # None) =>
             /\ Holds(read'.key) =>
                   /\ read'.log = <<>>
                   /\ read'.kind = "returned"
                   /\ read'.value = Cached(collection.inner_dict, read'.key)
                   /\ collection'.inner_dict = collection.inner_dict
             /\ (read'.log # <<>> /\ read'.kind = "returned") =>
                   collection'.inner_dict = collection.inner_dict \cup
                      {[name |-> read'.key, value |-> read'.value]}
             /\ read'.kind # "returned" =>
                   collection'.inner_dict = collection.inner_dict
             /\ read'.key \notin Range(collection.keys) =>
                   (read'.kind = "KeyError" /\ read'.log = <<>>)
             /\ \A e \in collection.inner_dict : e \in collection'.inner_dict]_vars
    /\ [][(SetReadStep /\ collection.lazy) =>
             /\ \A n \in DOMAIN set_read'.log :
                   /\ ~Holds(set_read'.log[n])
                   /\ set_read'.log[n] \in Range(collection.keys)
             /\ \A m, n \in DOMAIN set_read'.log :
                   set_read'.log[m] = set_read'.log[n] => m = n
             /\ \A e \in collection.inner_dict : e \in collection'.inner_dict
             /\ \A e \in collection'.inner_dict \ collection.inner_dict :
                   e.name \in Range(set_read'.log)]_vars

\* A key of a lazy dictionary that was loaded by an earlier read is read
\* again: the value comes from the inner dict, no plan is executed.
C35_Witness ==
    /\ collection.lazy
    /\ collection.facade = "dict"
    /\ read.kind = "returned"
    /\ read.log = <<>>
    /\ Holds(read.key)
    /\ Cardinality(collection.inner_dict) = 1
    /\ Len(collection.keys) = 2

\* Two values a set facade yielded are equal for Python's ==.
Equal(v, w) == mf_contents[v.child] = mf_contents[w.child]

\* C36 (as claimed): the length of a returned set is the number of distinct
\* values among its children's, and an iteration of it yields no two equal
\* values.
C36_SetFacadeIsSetOfValues ==
    set_read.kind = "returned" =>
        /\ set_read.op = "len" =>
              set_read.len = Cardinality({mf_contents[k] : k \in Range(collection.keys)})
        /\ set_read.op = "iter" =>
              \A m, n \in DOMAIN set_read.yielded :
                 m # n => ~Equal(set_read.yielded[m], set_read.yielded[n])

====
